---- MODULE Spec2Model ----
(***************************************************************************)
(* EditMaintenanceForm (src/src/components/EditMaintenanceForm.tsx): the   *)
(* React component state (isSubmitting, formError, formData), its two      *)
(* handlers (handleChange, handleSubmit), the pending update calls and the *)
(* router calls.                                                           *)
(*                                                                         *)
(* JavaScript values are tagged records: Null, Undefined, Num(c), Str(s).  *)
(* A number is kept in hundredths (the cost input's step is 0.01), so      *)
(* Num(4550) is 45.5 and Num(700) is 7.  The text of a string is a TLA+    *)
(* string, except for the dates of the incoming record, whose text is a    *)
(* sequence of characters so that new Date(...) really parses it.          *)
(***************************************************************************)
EXTENDS Integers, Sequences, FiniteSets, TLC

VARIABLES
    maintenanceRecord,  \* the maintenanceRecord prop
    mounted,            \* whether the component function has run (useState initialised)
    isSubmitting,       \* useState(false)
    formError,          \* useState<string | null>(null)
    formData,           \* useState({...})
    event,              \* the DOM event most recently handed to a handler
    inflight,           \* payloads of the updateMaintenanceRecord calls still awaited
    result,             \* outcome of the most recently settled update call
    routerLog,          \* the router calls made so far
    nSubmits,           \* number of update calls issued
    nEdits              \* number of change events handled

vars == <<maintenanceRecord, mounted, isSubmitting, formError, formData, event,
          inflight, result, routerLog, nSubmits, nEdits>>

----------------------------------------------------------------------------
(* Bounds of the model *)

MaxEdits == 2
MaxSubmits == 2

----------------------------------------------------------------------------
(* JavaScript values *)

Null == [t |-> "null"]
Undefined == [t |-> "undefined"]
Num(c) == [t |-> "number", v |-> c]
Str(s) == [t |-> "string", v |-> s]

\* Hundredths per unit: the resolution of the cost input (step="0.01").
Scale == 100

\* JavaScript truthiness (no NaN in the model).
Truthy(x) ==
    CASE x.t = "null" -> FALSE
      [] x.t = "undefined" -> FALSE
      [] x.t = "number" -> x.v # 0
      [] x.t = "string" -> Len(x.v) > 0

\* a || b
Or(a, b) == IF Truthy(a) THEN a ELSE b

Digit(d) ==
    CASE d = 0 -> "0" [] d = 1 -> "1" [] d = 2 -> "2" [] d = 3 -> "3"
      [] d = 4 -> "4" [] d = 5 -> "5" [] d = 6 -> "6" [] d = 7 -> "7"
      [] d = 8 -> "8" [] d = 9 -> "9"

RECURSIVE NatToString(_)
NatToString(n) ==
    IF n < 10 THEN Digit(n) ELSE NatToString(n \div 10) \o Digit(n % 10)

\* Number.prototype.toString() of the number c/Scale: no trailing zeros, no
\* decimal point for an integer.
NumberToString(c) ==
    LET a == IF c < 0 THEN -c ELSE c
        ip == a \div Scale
        fp == a % Scale
        frac == IF fp = 0 THEN ""
                ELSE IF fp % 10 = 0 THEN "." \o Digit(fp \div 10)
                ELSE "." \o Digit(fp \div 10) \o Digit(fp % 10)
    IN  (IF c < 0 THEN "-" ELSE "") \o NatToString(ip) \o frac

\* x?.toString()
OptionalToString(x) ==
    CASE x.t = "null" -> Undefined
      [] x.t = "undefined" -> Undefined
      [] x.t = "number" -> Str(NumberToString(x.v))
      [] x.t = "string" -> x

----------------------------------------------------------------------------
(* new Date(text).toISOString().split('T')[0] *)

DigitVal(ch) ==
    CASE ch = "0" -> 0 [] ch = "1" -> 1 [] ch = "2" -> 2 [] ch = "3" -> 3
      [] ch = "4" -> 4 [] ch = "5" -> 5 [] ch = "6" -> 6 [] ch = "7" -> 7
      [] ch = "8" -> 8 [] ch = "9" -> 9

Num2(s, i) == 10 * DigitVal(s[i]) + DigitVal(s[i + 1])
Num4(s, i) == 100 * Num2(s, i) + Num2(s, i + 2)

\* Days from 1970-01-01 to the proleptic Gregorian date y-m-d.
DaysFromCivil(y, m, d) ==
    LET yy == IF m <= 2 THEN y - 1 ELSE y
        era == yy \div 400
        yoe == yy - era * 400
        mp == IF m > 2 THEN m - 3 ELSE m + 9
        doy == (153 * mp + 2) \div 5 + d - 1
        doe == yoe * 365 + yoe \div 4 - yoe \div 100 + doy
    IN  era * 146097 + doe - 719468

\* The proleptic Gregorian date <<y, m, d>> of day z counted from 1970-01-01.
CivilFromDays(z) ==
    LET zz == z + 719468
        era == zz \div 146097
        doe == zz - era * 146097
        yoe == (doe - doe \div 1460 + doe \div 36524 - doe \div 146096) \div 365
        doy == doe - (365 * yoe + yoe \div 4 - yoe \div 100)
        mp == (5 * doy + 2) \div 153
        d == doy - (153 * mp + 2) \div 5 + 1
        m == IF mp < 10 THEN mp + 3 ELSE mp - 9
        y == yoe + era * 400
    IN  <<IF m <= 2 THEN y + 1 ELSE y, m, d>>

SecondsPerDay == 86400

\* new Date(text): the time value, in seconds (the milliseconds play no part
\* in the calendar date).  text is an ISO 8601 string: a date alone
\* ("YYYY-MM-DD", read as UTC midnight) or a date and time in UTC
\* ("YYYY-MM-DDTHH:mm:ssZ", "YYYY-MM-DDTHH:mm:ss.sssZ").
DateParse(s) ==
    LET days == DaysFromCivil(Num4(s, 1), Num2(s, 6), Num2(s, 9))
        secs == IF Len(s) > 10
                THEN 3600 * Num2(s, 12) + 60 * Num2(s, 15) + Num2(s, 18)
                ELSE 0
    IN  days * SecondsPerDay + secs

Pad2(n) == <<Digit(n \div 10), Digit(n % 10)>>
Pad4(n) == Pad2(n \div 100) \o Pad2(n % 100)

\* Date.prototype.toISOString(), as characters: "YYYY-MM-DDTHH:mm:ss.000Z".
ToISOString(t) ==
    LET days == t \div SecondsPerDay
        secs == t % SecondsPerDay
        ymd == CivilFromDays(days)
    IN  Pad4(ymd[1]) \o <<"-">> \o Pad2(ymd[2]) \o <<"-">> \o Pad2(ymd[3])
        \o <<"T">> \o Pad2(secs \div 3600) \o <<":">> \o Pad2((secs % 3600) \div 60)
        \o <<":">> \o Pad2(secs % 60) \o <<".", "0", "0", "0", "Z">>

\* chars.split(sep)[0]: the characters before the first sep.
RECURSIVE SplitFirst(_, _)
SplitFirst(chars, sep) ==
    IF chars = <<>> \/ Head(chars) = sep THEN <<>>
    ELSE <<Head(chars)>> \o SplitFirst(Tail(chars), sep)

\* The characters as one string.
RECURSIVE Join(_)
Join(chars) == IF chars = <<>> THEN "" ELSE Head(chars) \o Join(Tail(chars))

\* new Date(text).toISOString().split('T')[0]
DateInputValue(text) == Join(SplitFirst(ToISOString(DateParse(text)), "T"))

----------------------------------------------------------------------------
(* The props *)

\* One character per element.
D_2024_05_01 == <<"2", "0", "2", "4", "-", "0", "5", "-", "0", "1">>
D_2024_02_29 == <<"2", "0", "2", "4", "-", "0", "2", "-", "2", "9", "T",
                  "0", "0", ":", "0", "0", ":", "0", "0", ".", "0", "0", "0", "Z">>
D_2023_12_31 == <<"2", "0", "2", "3", "-", "1", "2", "-", "3", "1", "T",
                  "2", "3", ":", "5", "9", ":", "5", "9", "Z">>
D_1969_03_01 == <<"1", "9", "6", "9", "-", "0", "3", "-", "0", "1">>

DateTexts == {D_2024_05_01, D_2024_02_29, D_2023_12_31, D_1969_03_01}

Fields == {"id", "vehicle_id", "service_type", "description", "date_performed",
           "next_due_date", "cost", "status", "service_provider", "notes"}

\* The ids of the vehicles prop (Vehicle.id).
VehicleIds == {3, 5}

\* The serviceTypes the select offers (two of the eleven).
serviceTypes == {"Oil Change", "Other"}

StatusOptions == {"scheduled", "completed", "overdue"}

\* Bounded set of incoming records: every field absent (null or undefined)
\* or present.
AllRecords ==
    [id : {Num(7 * Scale), Num(0)},
     vehicle_id : {Num(3 * Scale), Null},
     service_type : {Undefined, Null, Str("Oil Change"), Str("Custom")},
     description : {Undefined, Str("Changed oil and filter")},
     date_performed : {Undefined, Null} \cup {Str(d) : d \in DateTexts},
     next_due_date : {Undefined, Null} \cup {Str(d) : d \in DateTexts},
     cost : {Undefined, Null, Num(0), Num(4550), Num(1205)},
     status : {Undefined, Null, Str("completed"), Str("overdue")},
     service_provider : {Null, Str("Joe's Garage")},
     notes : {Undefined, Str("")}]

\* The records the interaction specification starts from: the record of the
\* spec's scenario, a record with nothing but an id, and a record with id 0
\* whose vehicle and service type are not among those the selects offer.
ScenarioRecord ==
    [id |-> Num(7 * Scale), vehicle_id |-> Num(3 * Scale),
     service_type |-> Str("Oil Change"), description |-> Undefined,
     date_performed |-> Undefined, next_due_date |-> Str(D_2024_05_01),
     cost |-> Num(4550), status |-> Str("completed"),
     service_provider |-> Undefined, notes |-> Undefined]

SparseRecord ==
    [id |-> Num(0), vehicle_id |-> Null, service_type |-> Null,
     description |-> Null, date_performed |-> Null, next_due_date |-> Null,
     cost |-> Null, status |-> Null, service_provider |-> Null, notes |-> Null]

ForeignRecord ==
    [ScenarioRecord EXCEPT !.id = Num(0),
                           !.vehicle_id = Num(9 * Scale),
                           !.service_type = Str("Custom"),
                           !.date_performed = Str(D_2023_12_31)]

SessionRecords == {ScenarioRecord, SparseRecord, ForeignRecord}

----------------------------------------------------------------------------
(* Construction: the useState initialisers *)

\* Variant: the record's text is shown as it is, without the Date round trip.
InitialDateRaw(x) == IF Truthy(x) THEN Str(Join(x.v)) ELSE Str("")

InitialDate(x) == IF Truthy(x) THEN Str(DateInputValue(x.v)) ELSE Str("")

InitialFormData(r) ==
    [id |-> r.id,
     vehicle_id |-> r.vehicle_id,
     service_type |-> Or(r.service_type, Str("")),
     description |-> Or(r.description, Str("")),
     date_performed |-> InitialDate(r.date_performed),
     next_due_date |-> InitialDate(r.next_due_date),
     cost |-> Or(OptionalToString(r.cost), Str("0")),
     status |-> Or(r.status, Str("scheduled")),
     service_provider |-> Or(r.service_provider, Str("")),
     notes |-> Or(r.notes, Str(""))]

NotMounted == [f \in Fields |-> Undefined]
NoEvent == [type |-> "none"]
NoResult == [kind |-> "none"]

InitWith(records) ==
    /\ maintenanceRecord \in records
    /\ mounted = FALSE
    /\ isSubmitting = FALSE
    /\ formError = Null
    /\ formData = NotMounted
    /\ event = NoEvent
    /\ inflight = <<>>
    /\ result = NoResult
    /\ routerLog = <<>>
    /\ nSubmits = 0
    /\ nEdits = 0

\* The component function runs: useState(false), useState(null), useState({...}).
Mount ==
    /\ ~mounted
    /\ mounted' = TRUE
    /\ isSubmitting' = FALSE
    /\ formError' = Null
    /\ formData' = InitialFormData(maintenanceRecord)
    /\ UNCHANGED <<maintenanceRecord, event, inflight, result, routerLog, nSubmits, nEdits>>

MountInit == InitWith(AllRecords)
MountNext == Mount
MountSpec == MountInit /\ [][MountNext]_vars

----------------------------------------------------------------------------
(* The controls of the form *)

\* The fields that have a control (id has none).
EditableFields == Fields \ {"id"}

\* Numbers a user types into the cost input, in hundredths.
CostNumbers == {-100, 0, 1205, 1999, 4550}

\* The values a change event of each control can carry (e.target.value).
ControlValues(name) ==
    CASE name = "vehicle_id" -> {""} \cup {NatToString(v) : v \in VehicleIds}
      [] name = "service_type" -> {""} \cup serviceTypes
      [] name = "description" -> {"", "Replaced the filter"}
      [] name = "date_performed" -> {"", "2024-06-15"}
      [] name = "next_due_date" -> {"", "2024-06-15"}
      [] name = "cost" -> {"", NumberToString(-100), NumberToString(1999)}
      [] name = "status" -> StatusOptions
      [] name = "service_provider" -> {"", "Joe's Garage"}
      [] name = "notes" -> {"", "Call before pickup"}

\* String(x), as React compares a select's value prop with its options.
ToText(x) == Or(OptionalToString(x), Str("")).v

\* The value a <select> shows: the option equal to the value prop, else its
\* first option.
SelectValue(x, options, first) ==
    IF Truthy(x) /\ ToText(x) \in options THEN ToText(x) ELSE first

vehicleSelect(fd) ==
    SelectValue(fd.vehicle_id, {NatToString(v) : v \in VehicleIds}, "")
serviceTypeSelect(fd) == SelectValue(fd.service_type, serviceTypes, "")
statusSelect(fd) == SelectValue(fd.status, StatusOptions, "scheduled")
nextDueDateInput(fd) == ToText(fd.next_due_date)

\* The number a cost text stands for (Number(text)), over CostNumbers.
ParseCost(text) == CHOOSE c \in CostNumbers : NumberToString(c) = text

\* <input type="number" min="0">: empty, or a number not below min.
costInputValid(fd) ==
    LET text == ToText(fd.cost) IN IF text = "" THEN TRUE ELSE ParseCost(text) >= 0

\* The controls marked required.
RequiredValues(fd) ==
    [vehicle_id |-> vehicleSelect(fd), service_type |-> serviceTypeSelect(fd),
     next_due_date |-> nextDueDateInput(fd), status |-> statusSelect(fd)]

\* Variant: the next-due date is not checked.
CheckValidityWithoutDate(fd) ==
    /\ \A k \in {"vehicle_id", "service_type", "status"} : RequiredValues(fd)[k] # ""
    /\ costInputValid(fd)

\* form.checkValidity(): what the browser checks before it fires onSubmit.
CheckValidity(fd) ==
    /\ \A k \in DOMAIN RequiredValues(fd) : RequiredValues(fd)[k] # ""
    /\ costInputValid(fd)

\* Variant: the button is never disabled.
SubmitAlwaysEnabled == TRUE

\* <button type="submit" disabled={isSubmitting}>
SubmitEnabled == ~isSubmitting

----------------------------------------------------------------------------
(* handleChange *)

ChangeEvent(name, value) == [type |-> "change", name |-> name, value |-> value]

\* Variant: the update spreads the formData of the first render (a stale
\* closure) instead of prev.
SetFieldStale(prev, name, value) ==
    [InitialFormData(maintenanceRecord) EXCEPT ![name] = Str(value)]

SetField(prev, name, value) == [prev EXCEPT ![name] = Str(value)]

HandleChange(name, value) ==
    /\ mounted
    /\ nEdits < MaxEdits
    /\ event' = ChangeEvent(name, value)
    /\ formData' = SetField(formData, name, value)
    /\ nEdits' = nEdits + 1
    /\ UNCHANGED <<maintenanceRecord, mounted, isSubmitting, formError, inflight,
                   result, routerLog, nSubmits>>

----------------------------------------------------------------------------
(* handleSubmit *)

ListingPath == "/dashboard/maintenance"
FailureFallback == "An error occurred while updating the maintenance record"
UnexpectedFallback == "An unexpected error occurred. Please try again."

\* Variant: value ? value.toString() : '' (a falsy 0 is sent as '').
BuildPayloadTruthy(fd) ==
    [k \in DOMAIN fd |-> IF Truthy(fd[k]) THEN OptionalToString(fd[k]).v ELSE ""]

\* formDataObj: one entry per entry of formData, value?.toString() || ''.
BuildPayload(fd) == [k \in DOMAIN fd |-> Or(OptionalToString(fd[k]), Str("")).v]

\* Variant: without setFormError(null).
HandleSubmitKeepingError ==
    /\ event' = [type |-> "submit"]
    /\ isSubmitting' = TRUE
    /\ inflight' = Append(inflight, [k \in DOMAIN formData |->
                            Or(OptionalToString(formData[k]), Str("")).v])
    /\ nSubmits' = nSubmits + 1
    /\ UNCHANGED <<maintenanceRecord, mounted, formError, formData, result, routerLog, nEdits>>

\* Up to the await: setIsSubmitting(true), setFormError(null), the payload
\* is built and the update call is issued.
HandleSubmit ==
    /\ event' = [type |-> "submit"]
    /\ isSubmitting' = TRUE
    /\ formError' = Null
    /\ inflight' = Append(inflight, BuildPayload(formData))
    /\ nSubmits' = nSubmits + 1
    /\ UNCHANGED <<maintenanceRecord, mounted, formData, result, routerLog, nEdits>>

\* The user activates the submit button (or submits from a field).
Submit ==
    /\ mounted
    /\ nSubmits < MaxSubmits
    /\ SubmitEnabled
    /\ CheckValidity(formData)
    /\ HandleSubmit

\* The sequence without its i-th element.
Without(seq, i) == SubSeq(seq, 1, i - 1) \o SubSeq(seq, i + 1, Len(seq))

\* The messages a failure result carries: none, an empty one, a text.
Messages == {Undefined, Str(""), Str("Vehicle not found")}

\* Variant: the result's message is ignored.
FailureMessageIgnored(message) == Str(FailureFallback)

\* result.message || '...'
FailureMessage(message) == Or(message, Str(FailureFallback))

\* Variant: a finally block clears isSubmitting after a success too.
UpdateSucceedsResetting(i) ==
    /\ result' = [kind |-> "success"]
    /\ inflight' = SubSeq(inflight, 1, i - 1) \o SubSeq(inflight, i + 1, Len(inflight))
    /\ routerLog' = routerLog \o <<[call |-> "push", href |-> ListingPath],
                                   [call |-> "refresh"]>>
    /\ isSubmitting' = FALSE
    /\ UNCHANGED <<maintenanceRecord, mounted, formError, formData, event, nSubmits, nEdits>>

\* The awaited call i returns { success: true }.
UpdateSucceeds(i) ==
    /\ result' = [kind |-> "success"]
    /\ inflight' = Without(inflight, i)
    /\ routerLog' = routerLog \o <<[call |-> "push", href |-> ListingPath],
                                   [call |-> "refresh"]>>
    /\ UNCHANGED <<maintenanceRecord, mounted, isSubmitting, formError, formData, event,
                   nSubmits, nEdits>>

\* Variant: a failure re-initialises the form from the record.
UpdateFailsResetting(i, message) ==
    /\ result' = [kind |-> "failure", message |-> message]
    /\ inflight' = SubSeq(inflight, 1, i - 1) \o SubSeq(inflight, i + 1, Len(inflight))
    /\ formError' = Or(message, Str(FailureFallback))
    /\ isSubmitting' = FALSE
    /\ formData' = InitialFormData(maintenanceRecord)
    /\ UNCHANGED <<maintenanceRecord, mounted, event, routerLog, nSubmits, nEdits>>

\* The awaited call i returns { success: false, message }.
UpdateFails(i, message) ==
    /\ result' = [kind |-> "failure", message |-> message]
    /\ inflight' = Without(inflight, i)
    /\ formError' = FailureMessage(message)
    /\ isSubmitting' = FALSE
    /\ UNCHANGED <<maintenanceRecord, mounted, formData, event, routerLog, nSubmits, nEdits>>

\* Variant: the catch block sets the text of the failure branch.
ThrownMessageAsFailure == Str(FailureFallback)

\* The text the catch block sets.
ThrownMessage == Str(UnexpectedFallback)

\* The awaited call i throws: the catch block.
UpdateThrows(i) ==
    /\ result' = [kind |-> "thrown"]
    /\ inflight' = Without(inflight, i)
    /\ formError' = ThrownMessage
    /\ isSubmitting' = FALSE
    /\ UNCHANGED <<maintenanceRecord, mounted, formData, event, routerLog, nSubmits, nEdits>>

----------------------------------------------------------------------------
(* The component in use *)

Init == InitWith(SessionRecords)

Next ==
    \/ Mount
    \/ \E name \in EditableFields : \E value \in ControlValues(name) :
          HandleChange(name, value)
    \/ Submit
    \/ \E i \in 1..Len(inflight) : UpdateSucceeds(i)
    \/ \E i \in 1..Len(inflight) : \E message \in Messages : UpdateFails(i, message)
    \/ \E i \in 1..Len(inflight) : UpdateThrows(i)

Spec == Init /\ [][Next]_vars

----------------------------------------------------------------------------
(* Properties *)

\* A step in which an awaited update call returns or throws.
Settles == Len(inflight') < Len(inflight)

\* A step in which handleSubmit issues an update call.
Issues == nSubmits' = nSubmits + 1

\* A step in which handleChange runs.
Edits == nEdits' = nEdits + 1

PushThenRefresh == <<[call |-> "push", href |-> "/dashboard/maintenance"],
                     [call |-> "refresh"]>>

Absent(x) == x = Null \/ x = Undefined

\* The string form of a form value: the empty string for null/undefined.
StringForm(x) ==
    IF Absent(x) THEN ""
    ELSE IF x.t = "number" THEN NumberToString(x.v)
    ELSE x.v

TenKeys == {"id", "vehicle_id", "service_type", "description", "date_performed",
            "next_due_date", "cost", "status", "service_provider", "notes"}

\* C1: at most one update call is in flight at any time, and while
\* isSubmitting is true no submit is accepted: no step from such a state
\* handles a submit event or issues an update call.
C1_SingleFlight ==
    [][/\ Len(inflight') <= 1
       /\ isSubmitting =>
             /\ nSubmits' = nSubmits
             /\ Len(inflight') <= Len(inflight)
             /\ (event' # event => event'.type = "change")]_vars

\* A second attempt is in flight, after a first one failed and re-enabled the button.
C1_Witness == isSubmitting /\ Len(inflight) = 1 /\ nSubmits = 2

\* C2 as stated: after a failure result the banner is exactly the result's
\* message whenever the result carries one (any string), the generic fallback
\* text when it carries none, and isSubmitting is cleared.
C2_AsStated ==
    [][Settles /\ result'.kind = "failure" =>
          /\ formError' = IF result'.message.t = "string" THEN result'.message
                          ELSE Str("An error occurred while updating the maintenance record")
          /\ ~isSubmitting']_vars

\* C2 amended: after a failure result the banner is exactly the result's
\* message when the result carries a non-empty one, the generic fallback text
\* when it carries none or an empty one, and isSubmitting is cleared.
C2_NonEmptyMessage ==
    [][Settles /\ result'.kind = "failure" =>
          /\ formError' = IF result'.message.t = "string" /\ result'.message.v # ""
                          THEN result'.message
                          ELSE Str("An error occurred while updating the maintenance record")
          /\ ~isSubmitting']_vars

\* A failure result with a message has been shown and the button is enabled again.
C2_Witness ==
    /\ result = [kind |-> "failure", message |-> Str("Vehicle not found")]
    /\ formError = Str("Vehicle not found")
    /\ ~isSubmitting

\* C3 as stated: after a thrown error the banner shows the same text as after
\* a failure result without a message (the text of the failure branch), and
\* isSubmitting is cleared.
C3_AsStated ==
    [][Settles /\ result'.kind = "thrown" =>
          /\ formError' = Str("An error occurred while updating the maintenance record")
          /\ ~isSubmitting']_vars

\* C3 amended: a thrown error and a failure result without a message each
\* show a generic text and clear isSubmitting, but not the same text: the
\* thrown error shows "An unexpected error occurred. Please try again.", the
\* message-less failure "An error occurred while updating the maintenance
\* record".
C3_TwoFallbacks ==
    [][/\ Settles /\ result'.kind = "thrown" =>
             /\ formError' = Str("An unexpected error occurred. Please try again.")
             /\ ~isSubmitting'
       /\ Settles /\ result'.kind = "failure" /\ Absent(result'.message) =>
             /\ formError' = Str("An error occurred while updating the maintenance record")
             /\ ~isSubmitting']_vars

\* A thrown error has been handled.
C3_Witness ==
    /\ result.kind = "thrown"
    /\ formError = Str("An unexpected error occurred. Please try again.")
    /\ ~isSubmitting

\* C4: a step in which an update call returns success makes exactly the two
\* router calls push('/dashboard/maintenance') and refresh(), in this order,
\* and leaves formError null; no other step calls the router.
C4_SuccessNavigates ==
    [][IF Settles /\ result'.kind = "success"
       THEN routerLog' = routerLog \o PushThenRefresh /\ formError' = Null
       ELSE routerLog' = routerLog]_vars

\* A second attempt succeeded after a first one had failed and set a banner.
C4_Witness ==
    /\ result.kind = "success"
    /\ nSubmits = 2
    /\ routerLog = PushThenRefresh
    /\ formError = Null

\* C5: a change event for field F with value V sets formData[F] to V and
\* leaves every other field of formData, isSubmitting and formError
\* unchanged, also while an update call is in flight.
C5_EditFrame ==
    [][Edits =>
          /\ event'.type = "change"
          /\ DOMAIN formData' = TenKeys
          /\ formData'[event'.name] = Str(event'.value)
          /\ \A g \in TenKeys \ {event'.name} : formData'[g] = formData[g]
          /\ isSubmitting' = isSubmitting
          /\ formError' = formError]_vars

\* A field was edited while an update call is in flight, after an earlier edit
\* of another field.
C5_Witness ==
    /\ isSubmitting
    /\ Len(inflight) = 1
    /\ nEdits = 2
    /\ event.type = "change"
    /\ formData[event.name] = Str(event.value)
    /\ \E g \in TenKeys \ {event.name} : inflight[1][g] # StringForm(InitialFormData(maintenanceRecord)[g])

\* C6: the payload handed to the update call has exactly the ten keys, each
\* with the string form of the formData value at the moment of submit (the
\* empty string for null/undefined); no later step, a field edit included,
\* alters a payload in flight.
C6_Payload ==
    [][/\ Issues =>
             /\ Len(inflight') = Len(inflight) + 1
             /\ SubSeq(inflight', 1, Len(inflight)) = inflight
             /\ DOMAIN inflight'[Len(inflight')] = TenKeys
             /\ \A k \in TenKeys : inflight'[Len(inflight')][k] = StringForm(formData[k])
       /\ Edits => inflight' = inflight
       /\ ~Issues =>
             \A i \in 1..Len(inflight') : \E j \in 1..Len(inflight) :
                inflight'[i] = inflight[j]]_vars

\* A payload is in flight and formData has been edited since.
C6_Witness ==
    /\ Len(inflight) = 1
    /\ event.type = "change"
    /\ inflight[1][event.name] # event.value
    /\ formData[event.name] = Str(event.value)

OptionalFields == {"description", "date_performed", "cost", "service_provider", "notes"}

\* C7: no update call is made with an empty vehicle_id, service_type,
\* next_due_date or status, and emptying any other field never makes a valid
\* form invalid.
C7_Required ==
    /\ \A i \in 1..Len(inflight) :
          \A k \in {"vehicle_id", "service_type", "next_due_date", "status"} :
             inflight[i][k] # ""
    /\ mounted =>
          \A f \in OptionalFields :
             CheckValidity(formData) => CheckValidity([formData EXCEPT ![f] = Str("")])

\* An update call was made with every optional field empty.
C7_Witness ==
    /\ Len(inflight) = 1
    /\ \A f \in OptionalFields : inflight[1][f] = ""

\* C8: a step in which an update call returns a failure result or throws
\* leaves every field of formData as it was (edits made in flight included);
\* nothing but formError, isSubmitting and the bookkeeping of the call changes.
C8_FailureKeepsData ==
    [][Settles /\ result'.kind \in {"failure", "thrown"} =>
          /\ formData' = formData
          /\ routerLog' = routerLog
          /\ mounted' = mounted
          /\ maintenanceRecord' = maintenanceRecord]_vars

\* The only attempt failed, the form holds an edit, and no submit followed it.
C8_Witness ==
    /\ result.kind \in {"failure", "thrown"}
    /\ nSubmits = 1
    /\ ~isSubmitting
    /\ formError # Null
    /\ event.type = "change"
    /\ formData[event.name] = Str(event.value)
    /\ formData # InitialFormData(maintenanceRecord)

CostText == (0 :> "0") @@ (4550 :> "45.5") @@ (1205 :> "12.05")

\* C9: after construction formData is the record under the display
\* transforms: an absent text field is '', an absent status 'scheduled', an
\* absent cost '0' and a present cost its string form, an absent date '' and
\* a present date its first ten characters YYYY-MM-DD; present values, id
\* and vehicle_id are passed through.
C9_InitialFormState ==
    mounted =>
       LET r == maintenanceRecord IN
       /\ DOMAIN formData = TenKeys
       /\ formData.id = r.id
       /\ formData.vehicle_id = r.vehicle_id
       /\ \A f \in {"service_type", "description", "service_provider", "notes"} :
             formData[f] = IF Absent(r[f]) THEN Str("") ELSE r[f]
       /\ formData.status = IF Absent(r.status) THEN Str("scheduled") ELSE r.status
       /\ formData.cost = IF Absent(r.cost) THEN Str("0") ELSE Str(CostText[r.cost.v])
       /\ \A f \in {"date_performed", "next_due_date"} :
             formData[f] = IF Absent(r[f]) THEN Str("")
                           ELSE Str(Join(SubSeq(r[f].v, 1, 10)))

\* A record with cost 0, no status, a date with a time part and no
\* date_performed has been rendered.
C9_Witness ==
    /\ mounted
    /\ maintenanceRecord.cost = Num(0) /\ formData.cost = Str("0")
    /\ maintenanceRecord.status = Undefined /\ formData.status = Str("scheduled")
    /\ maintenanceRecord.next_due_date = Str(D_2023_12_31)
    /\ formData.next_due_date = Str("2023-12-31")
    /\ maintenanceRecord.date_performed = Null /\ formData.date_performed = Str("")

\* C10: once an update call has returned success, isSubmitting is true and
\* stays true, and no further update call is issued; isSubmitting goes from
\* true to false only in a step in which a call returns a failure result or
\* throws.
C10_SuccessIsFinal ==
    [][/\ result'.kind = "success" => isSubmitting'
       /\ result.kind = "success" => nSubmits' = nSubmits /\ result' = result
       /\ isSubmitting /\ ~isSubmitting' =>
             Settles /\ result'.kind \in {"failure", "thrown"}]_vars

\* After a success the user edited a field; the button is still disabled.
C10_Witness ==
    /\ result.kind = "success"
    /\ isSubmitting
    /\ Len(inflight) = 0
    /\ event.type = "change"
    /\ nSubmits = 2

====
